---- MODULE Spec2Model ----
\* Model of zygisk-gadget (module/src/main/cpp/main.cpp): the handshake between
\* the in-process hook (MyModule::preAppSpecialize / postAppSpecialize) and the
\* root companion (companion_handler) over one socket per specialization event,
\* the staging of the gadget into the app's data directory, and the delayed
\* loader (injection_thread).
\*
\* Strings are sequences of bytes (ASCII codes); a socket direction is the
\* sequence of bytes written and not yet read.
EXTENDS Integers, Sequences, FiniteSets, TLC

\* ------------------------------------------------------------------ bounds

\* Number of specialization events (launching processes) of the model.
NumEvents == 2
\* Number of BUFFER_SIZE chunks in a source file of the module root.
MaxChunks == 1
\* Longest short byte body drawn for the framing specification.
MaxBody == 2

\* ------------------------------------------------------- program constants

\* readString's sanity cap, 16 * 1024.
MaxStringLen == 16384
\* sizeof(uint32_t), sizeof(uint): bytes of a length prefix and of the delay.
WordBytes == 4

\* ---------------------------------------------------------------- strings

NULL == <<-1>>

\* "" (std::string())
Empty == <<>>
\* '/'
Slash == 47
\* '.'
Dot == 46
\* "/config"
ConfigSuffix == <<47, 99, 111, 110, 102, 105, 103>>
\* "/data/data/"
DataDataPrefix == <<47, 100, 97, 116, 97, 47, 100, 97, 116, 97, 47>>
\* "/m", the module directory getPathFromFd returns
ModuleDir == <<47, 109>>
\* "a", "b": package names
PkgA == <<97>>
PkgB == <<98>>
\* "/u/a", "/u/a/": app data directories the host can pass
DirA == <<47, 117, 47, 97>>
DirASlash == <<47, 117, 47, 97, 47>>
\* "ajeossida-gadget-16.5.2-android-arm.so"
GadgetArm == <<97, 106, 101, 111, 115, 115, 105, 100, 97, 45, 103, 97, 100, 103, 101, 116, 45, 49, 54, 46, 53, 46, 50, 45, 97, 110, 100, 114, 111, 105, 100, 45, 97, 114, 109, 46, 115, 111>>
\* "ajeossida-gadget-16.5.2-android-arm64.so"
GadgetArm64 == <<97, 106, 101, 111, 115, 115, 105, 100, 97, 45, 103, 97, 100, 103, 101, 116, 45, 49, 54, 46, 53, 46, 50, 45, 97, 110, 100, 114, 111, 105, 100, 45, 97, 114, 109, 54, 52, 46, 115, 111>>
\* "ajeossida-gadget-16.5.2-android-x86.so"
GadgetX86 == <<97, 106, 101, 111, 115, 115, 105, 100, 97, 45, 103, 97, 100, 103, 101, 116, 45, 49, 54, 46, 53, 46, 50, 45, 97, 110, 100, 114, 111, 105, 100, 45, 120, 56, 54, 46, 115, 111>>
\* "ajeossida-gadget-16.5.2-android-x86_64.so"
GadgetX86_64 == <<97, 106, 101, 111, 115, 115, 105, 100, 97, 45, 103, 97, 100, 103, 101, 116, 45, 49, 54, 46, 53, 46, 50, 45, 97, 110, 100, 114, 111, 105, 100, 45, 120, 56, 54, 95, 54, 52, 46, 115, 111>>
\* "frida-gadget.config"
FridaConfig == <<102, 114, 105, 100, 97, 45, 103, 97, 100, 103, 101, 116, 46, 99, 111, 110, 102, 105, 103>>
\* "config", the Config Record Source in the module directory
ConfigFileName == <<99, 111, 110, 102, 105, 103>>
\* "-gadget"
MGadget == <<45, 103, 97, 100, 103, 101, 116>>
\* "arm.so", "arm64.so", "x86.so", "x86_64.so"
SufArm == <<97, 114, 109, 46, 115, 111>>
SufArm64 == <<97, 114, 109, 54, 52, 46, 115, 111>>
SufX86 == <<120, 56, 54, 46, 115, 111>>
SufX86_64 == <<120, 56, 54, 95, 54, 52, 46, 115, 111>>
\* ".config.so"
DotConfigSo == <<46, 99, 111, 110, 102, 105, 103, 46, 115, 111>>
\* "-gadget.config"
GadgetDotConfig == <<45, 103, 97, 100, 103, 101, 116, 46, 99, 111, 110, 102, 105, 103>>

Min(S) == CHOOSE x \in S : \A y \in S : x <= y
Max(S) == CHOOSE x \in S : \A y \in S : x >= y

\* The first n bytes of s, and s without them.
Take(s, n) == SubSeq(s, 1, n)
Drop(s, n) == SubSeq(s, n + 1, Len(s))

\* A char buffer read as a C string: the bytes before the first NUL.
CStr(buf) ==
  LET zs == {i \in 1..Len(buf) : buf[i] = 0}
  IN  IF zs = {} THEN buf ELSE Take(buf, Min(zs) - 1)

\* A uint32_t in memory (little-endian on all four ABIs) as two 16-bit halves
\* of two bytes each; LE32 and UnLE32 are for values below 2^31.
LE16(n) == << n % 256, n \div 256 >>
LE32(n) == LE16(n % 65536) \o LE16(n \div 65536)
Lo16(b) == b[1] + 256 * b[2]
Hi16(b) == b[3] + 256 * b[4]
UnLE32(b) == Lo16(b) + 65536 * Hi16(b)

\* ----------------------------------------------------------------- framing

\* read_full(fd, buf, len) on a stream whose writer has finished or has
\* already written len bytes: all len bytes, or failure at end of stream
\* after taking what was there.
read_full(stream, len) ==
  IF Len(stream) >= len
    THEN [ok |-> TRUE, bytes |-> Take(stream, len), rest |-> Drop(stream, len)]
    ELSE [ok |-> FALSE, bytes |-> stream, rest |-> <<>>]

\* writeString(fd, str): the length str.size() + 1, then that many bytes of
\* str.c_str().
writeString(str) == LE32(Len(str) + 1) \o str \o <<0>>

\* A length test whose cap is the 16-bit range instead of 16 * 1024.
InvalidLengthWide(hdr) == Hi16(hdr) > 0 \/ Lo16(hdr) = 0

\* length == 0 || length > 16 * 1024, on the four bytes of the prefix.
InvalidLength(hdr) == Hi16(hdr) > 0 \/ Lo16(hdr) = 0 \/ Lo16(hdr) > MaxStringLen

\* readString(fd): the string returned, the stream left behind, and the
\* number of payload bytes taken from the stream.
readString(stream) ==
  LET hdr == read_full(stream, WordBytes)
  IN  IF ~hdr.ok THEN [str |-> Empty, rest |-> hdr.rest, body |-> 0]
      ELSE IF InvalidLength(hdr.bytes)
        THEN [str |-> Empty, rest |-> hdr.rest, body |-> 0]
        ELSE LET length == Lo16(hdr.bytes)
                 dat == read_full(hdr.rest, length)
             IN  IF ~dat.ok
                   THEN [str |-> Empty, rest |-> dat.rest, body |-> Len(dat.bytes)]
                   ELSE [str |-> CStr([dat.bytes EXCEPT ![length] = 0]),
                         rest |-> dat.rest, body |-> length]

\* A read that does not return when the writer closes.
StringReadyIgnoresClose(stream, writerClosed) ==
  /\ Len(stream) >= WordBytes
  /\ \/ InvalidLength(Take(stream, WordBytes))
     \/ Len(stream) >= WordBytes + Lo16(Take(stream, WordBytes))

\* A blocking readString returns once the whole frame is on the stream, or
\* the prefix announces a length it rejects, or the writer has closed.
StringReady(stream, writerClosed) ==
  \/ writerClosed
  \/ /\ Len(stream) >= WordBytes
     /\ \/ InvalidLength(Take(stream, WordBytes))
        \/ Len(stream) >= WordBytes + Lo16(Take(stream, WordBytes))

\* ------------------------------------------------------------ file names

HasAt(s, i, t) == i >= 1 /\ i + Len(t) - 1 <= Len(s) /\ SubSeq(s, i, i + Len(t) - 1) = t
EndsWith(s, t) == HasAt(s, Len(s) - Len(t) + 1, t)

\* std::regex_search(name, ".*-gadget.*<suffix>$"), suffix a literal.
GadgetPattern(name, suffix) ==
  /\ EndsWith(name, suffix)
  /\ \E i \in 1..Len(name) :
       HasAt(name, i, MGadget) /\ i + Len(MGadget) <= Len(name) - Len(suffix) + 1

Archs == {"arm", "arm64", "x86", "x86_64"}

\* The literal tail of frida_gadget_pattern for each ABI (#ifdef __arm__ ...).
ArchSuffix(a) ==
  CASE a = "arm" -> SufArm
    [] a = "arm64" -> SufArm64
    [] a = "x86" -> SufX86
    [] a = "x86_64" -> SufX86_64

\* std::regex frida_gadget_pattern, as a predicate on file names.
frida_gadget_pattern(a, name) == GadgetPattern(name, ArchSuffix(a))

\* std::regex frida_config_pattern(".*-gadget\\.config$")
frida_config_pattern(name) == EndsWith(name, GadgetDotConfig)

cleanup_pattern_of_module(name) == frida_config_pattern(name)

\* std::regex pattern(".*-gadget.*\\.config\\.so$") of injection_thread
cleanup_pattern(name) == GadgetPattern(name, DotConfigSo)

\* find_matching_file: the names it can return for a directory listing (the
\* first match in directory order, which is unspecified), "" when none match.
\* std::regex_match(name, pattern) for the three patterns of the program; the
\* gadget pattern is named by its ABI.
regex_match(name, pattern) ==
  CASE pattern = "config"  -> frida_config_pattern(name)
    [] pattern = "cleanup" -> cleanup_pattern(name)
    [] OTHER               -> frida_gadget_pattern(pattern, name)

find_nothing(entries, pattern) == {Empty}

find_matching_file(entries, pattern) ==
  LET hits == {n \in entries : regex_match(n, pattern)}
  IN  IF hits = {} THEN {Empty} ELSE hits

\* normalize_dir: strip every trailing '/'.
normalize_dir(p) ==
  LET keep == {i \in 1..Len(p) : p[i] # Slash}
  IN  IF keep = {} THEN Empty ELSE Take(p, Max(keep))

\* s.rfind(c) / s.find_last_of(c): last index (1-based) of c, 0 for npos.
rfind(s, c) ==
  LET at == {i \in 1..Len(s) : s[i] = c}
  IN  IF at = {} THEN 0 ELSE Max(at)

\* s.substr(0, s.rfind(c)): with npos the whole string.
substr_to_last(s, c) == IF rfind(s, c) = 0 THEN s ELSE Take(s, rfind(s, c) - 1)

\* ------------------------------------------------------------------ state

VARIABLES
  arch,           \* ABI the module was built for
  cfg,            \* the Config Record Source (module directory, file "config")
  moduleFiles,    \* names of the other entries of the module directory
  niceName,       \* per event: args->nice_name (NULL: none)
  appDataDirArg,  \* per event: args->app_data_dir (NULL: none)
  fs,             \* files under the app data directories: path -> [data, owner]
  companionAlive, \* the companion process is running
  h2c, c2h,       \* per event: bytes in flight, hook to companion and back
  hookFd, compFd, \* per event: each end of the socket: "none", "open", "closed"
  hook,           \* per event: MyModule's fields and position
  comp,           \* per event: companion_handler's locals and position
  loader,         \* per event: injection_thread's arguments, locals and position
  log,            \* per event: what each side has done, in order
  rsIn, rsOut     \* a byte stream handed to readString, and what it returned

vars == << arch, cfg, moduleFiles, niceName, appDataDirArg, fs, companionAlive,
           h2c, c2h, hookFd, compFd, hook, comp, loader, log, rsIn, rsOut >>

Events == 1..NumEvents

\* Values an uninitialised or configured delay can hold.
ConfigDelay == 300000
UninitDelays == {0, ConfigDelay}

\* args->nice_name: another package, the target package, the empty string,
\* no name.
NiceNames == << PkgB, PkgA, Empty, NULL >>
AppDataDirArgs == {NULL, DirA, DirASlash}
AllGadgets == {GadgetArm, GadgetArm64, GadgetX86, GadgetX86_64}
ModuleRoots == {{}, AllGadgets, AllGadgets \cup {FridaConfig}}

\* get_json's outcomes: the file cannot be opened; it holds no JSON text; it
\* holds JSON without package.name / delay / mode.config; it is well-formed.
Configs ==
  {[state |-> st, name |-> Empty, delay |-> 0, mode |-> FALSE] :
      st \in {"missing", "malformed", "nofield"}}
  \cup {[state |-> "ok", name |-> PkgA, delay |-> ConfigDelay, mode |-> m] : m \in BOOLEAN}

Path(dir, name) == dir \o <<Slash>> \o name

\* The entries of directory dir among the files of fs.
DirEntries(dir) ==
  {Drop(p, Len(dir) + 1) :
     p \in {q \in DOMAIN fs : HasAt(q, 1, dir \o <<Slash>>)
                              /\ \A i \in (Len(dir) + 2)..Len(q) : q[i] # Slash}}

\* The owner of an app data directory (st_uid, st_gid of stat(dir_path)), and
\* of a file the companion creates.
DirOwner == "app"
CompanionOwner == "root"

\* The content of every file of the module directory, in BUFFER_SIZE chunks.
SrcData == [i \in 1..MaxChunks |-> i]

NoFiles == [p \in {} |-> 0]

HookInit ==
  [pc |-> "idle", enable |-> FALSE, target |-> NULL, appDir |-> NULL,
   delay |-> 0, gadget |-> NULL, dlclose |-> FALSE]

CompInit ==
  [pc |-> "none", path |-> Empty, target |-> Empty, delay |-> 0, mode |-> FALSE,
   appDir |-> Empty, gadget |-> Empty, which |-> "none", src |-> Empty, dst |-> Empty,
   pos |-> 0, cfgCopy |-> "none", cfgChown |-> "none", payCopy |-> "none",
   payChown |-> "none", wrote |-> {}]

LoaderInit ==
  [pc |-> "none", appDir |-> NULL, name |-> NULL, delay |-> 0, dir |-> Empty,
   path |-> Empty, handle |-> FALSE, tried |-> {}, removed |-> {}]

\* Nothing has run yet: no staged file, no socket, no handler, no thread.
InitRun ==
  /\ fs = NoFiles
  /\ companionAlive = TRUE
  /\ h2c = [e \in Events |-> <<>>]
  /\ c2h = [e \in Events |-> <<>>]
  /\ hookFd = [e \in Events |-> "none"]
  /\ compFd = [e \in Events |-> "none"]
  /\ comp = [e \in Events |-> CompInit]
  /\ loader = [e \in Events |-> LoaderInit]
  /\ log = [e \in Events |-> <<>>]

\* Everything but the inputs of the events.
InitCommon ==
  /\ arch \in Archs
  /\ cfg \in Configs
  /\ moduleFiles \in ModuleRoots
  /\ InitRun

\* One specialization event: the host is about to call preAppSpecialize of
\* event 1; the other processes never load the module.
Init ==
  /\ InitCommon
  /\ \E i \in DOMAIN NiceNames :
       niceName = [e \in Events |-> IF e = 1 THEN NiceNames[i] ELSE NULL]
  /\ \E d \in AppDataDirArgs :
       appDataDirArg = [e \in Events |-> IF e = 1 THEN d ELSE NULL]
  /\ hook = [e \in Events |-> [HookInit EXCEPT !.pc = IF e = 1 THEN "start" ELSE "idle"]]
  /\ rsIn = [decl |-> [hi |-> 0, lo |-> 0], bytes |-> <<>>]
  /\ rsOut = [str |-> NULL, rest |-> <<>>, body |-> 0]

Logged(e, what) == \E i \in 1..Len(log[e]) : log[e][i] = what
Count(e, what) == Cardinality({i \in 1..Len(log[e]) : log[e][i] = what})

\* ------------------------------------------------------------------- hook

\* write()/writeString() on the hook's end: the bytes are lost when the
\* companion's end is not open.
HookWrite(e, bytes) == IF compFd[e] = "open" THEN h2c[e] \o bytes ELSE h2c[e]

\* preAppSpecialize, up to the first readString: the early return for a
\* process without a name, else connectCompanion and the config path.
HookStart(e) ==
  /\ hook[e].pc = "start"
  /\ IF niceName[e] = NULL
       THEN /\ hook' = [hook EXCEPT ![e].pc = "pre_done"]
            /\ UNCHANGED << h2c, hookFd, compFd, comp, log >>
       ELSE /\ hook' = [hook EXCEPT ![e].pc = "wait_target"]
            /\ hookFd' = [hookFd EXCEPT ![e] = "open"]
            /\ compFd' = [compFd EXCEPT ![e] = IF companionAlive THEN "open" ELSE "closed"]
            /\ comp' = [comp EXCEPT ![e].pc = IF companionAlive THEN "read_path" ELSE "none"]
            /\ h2c' = [h2c EXCEPT ![e] =
                         IF companionAlive THEN writeString(ModuleDir \o ConfigSuffix) ELSE <<>>]
            /\ log' = [log EXCEPT ![e] = Append(@, "h:config_path")]
  /\ UNCHANGED << arch, cfg, moduleFiles, niceName, appDataDirArg, fs, companionAlive,
                  c2h, loader, rsIn, rsOut >>

HookMismatchKeepsModule(h) == [h EXCEPT !.pc = "pre_done"]

\* The else branch of preAppSpecialize: setOption(DLCLOSE_MODULE_LIBRARY).
HookMismatch(h) == [h EXCEPT !.dlclose = TRUE, !.pc = "pre_done"]

\* The fields preAppSpecialize sets when strcmp finds the names equal.
HookMatch(h, target, dirArg) ==
  [h EXCEPT !.enable = TRUE, !.target = target,
            !.appDir = IF dirArg # NULL THEN dirArg ELSE @,
            !.pc = "wait_delay"]

\* The blocking read the hook is in can return: the bytes are there, or the
\* companion's end is closed.
HookCanRead(e) ==
  \/ hook[e].pc \in {"wait_target", "wait_name"} /\ StringReady(c2h[e], compFd[e] # "open")
  \/ hook[e].pc = "wait_delay" /\ (Len(c2h[e]) >= WordBytes \/ compFd[e] # "open")

\* preAppSpecialize from readString(fd) of the target name to the write of
\* the decision and the directory, or to the else branch.
HookRecvTarget(e) ==
  /\ hook[e].pc = "wait_target"
  /\ HookCanRead(e)
  /\ LET r == readString(c2h[e])
         got == IF Len(c2h[e]) >= WordBytes THEN "h:recv_target" ELSE "h:recv_eof"
     IN  /\ c2h' = [c2h EXCEPT ![e] = r.rest]
         /\ IF niceName[e] = r.str
              THEN /\ hook' = [hook EXCEPT ![e] = HookMatch(@, r.str, appDataDirArg[e])]
                   /\ h2c' = [h2c EXCEPT ![e] =
                        HookWrite(e, <<1>> \o
                          writeString(IF appDataDirArg[e] # NULL THEN appDataDirArg[e] ELSE Empty))]
                   /\ log' = [log EXCEPT ![e] = @ \o << got, "h:decision_true", "h:dir" >>]
                   /\ UNCHANGED hookFd
              ELSE /\ hook' = [hook EXCEPT ![e] = HookMismatch(@)]
                   /\ hookFd' = [hookFd EXCEPT ![e] = "closed"]
                   /\ log' = [log EXCEPT ![e] = @ \o << got, "h:close" >>]
                   /\ UNCHANGED h2c
  /\ UNCHANGED << arch, cfg, moduleFiles, niceName, appDataDirArg, fs, companionAlive,
                  compFd, comp, loader, rsIn, rsOut >>

\* read(fd, &delay, sizeof(delay)); _delay = delay. At end of stream delay
\* keeps its uninitialised value.
HookRecvDelay(e) ==
  /\ hook[e].pc = "wait_delay"
  /\ HookCanRead(e)
  /\ IF Len(c2h[e]) >= WordBytes
       THEN /\ hook' = [hook EXCEPT ![e].delay = UnLE32(Take(c2h[e], WordBytes)),
                                    ![e].pc = "wait_name"]
            /\ c2h' = [c2h EXCEPT ![e] = Drop(@, WordBytes)]
       ELSE /\ \E d \in UninitDelays :
                 hook' = [hook EXCEPT ![e].delay = d, ![e].pc = "wait_name"]
            /\ c2h' = [c2h EXCEPT ![e] = <<>>]
  /\ UNCHANGED << arch, cfg, moduleFiles, niceName, appDataDirArg, fs, companionAlive,
                  h2c, hookFd, compFd, comp, loader, log, rsIn, rsOut >>

\* readString(fd) of the gadget name, and the rest of the match branch.
HookRecvName(e) ==
  /\ hook[e].pc = "wait_name"
  /\ HookCanRead(e)
  /\ LET r == readString(c2h[e])
     IN  /\ c2h' = [c2h EXCEPT ![e] = r.rest]
         /\ hook' = [hook EXCEPT ![e] =
                       IF r.str = Empty
                         THEN [@ EXCEPT !.enable = FALSE, !.pc = "pre_done"]
                         ELSE [@ EXCEPT !.gadget = r.str, !.pc = "pre_done"]]
         /\ log' = [log EXCEPT ![e] = @ \o
                      << (IF Len(c2h[e]) >= WordBytes THEN "h:recv_name" ELSE "h:recv_eof"),
                         "h:close" >>]
  /\ hookFd' = [hookFd EXCEPT ![e] = "closed"]
  /\ UNCHANGED << arch, cfg, moduleFiles, niceName, appDataDirArg, fs, companionAlive,
                  h2c, compFd, comp, loader, rsIn, rsOut >>

SpawnsAlways(h) == TRUE

\* Whether postAppSpecialize starts injection_thread.
SpawnsLoader(h) == h.enable

\* postAppSpecialize: std::thread t(injection_thread, ...); t.detach().
HookPost(e) ==
  /\ hook[e].pc = "pre_done"
  /\ hook' = [hook EXCEPT ![e].pc = "post_done"]
  /\ loader' = [loader EXCEPT ![e] =
                  IF SpawnsLoader(hook[e])
                    THEN [@ EXCEPT !.pc = "sleep", !.appDir = hook[e].appDir,
                                   !.name = hook[e].gadget, !.delay = hook[e].delay]
                    ELSE @]
  /\ log' = [log EXCEPT ![e] = IF SpawnsLoader(hook[e]) THEN Append(@, "h:spawn") ELSE @]
  /\ UNCHANGED << arch, cfg, moduleFiles, niceName, appDataDirArg, fs, companionAlive,
                  h2c, c2h, hookFd, compFd, comp, rsIn, rsOut >>

\* -------------------------------------------------------------- companion

COMMON == << arch, cfg, moduleFiles, niceName, appDataDirArg, rsIn, rsOut >>

\* write()/writeString() on the companion's end.
CompWrite(e, bytes) == IF hookFd[e] = "open" THEN c2h[e] \o bytes ELSE c2h[e]

\* companion_handler returns: the caller closes the client socket.
Return(c) == [c EXCEPT !.pc = "done"]

\* get_json(path): "missing" when the file cannot be opened (returns nullptr),
\* else what parsing the Config Record Source gives.
get_json(path) == IF path = ModuleDir \o ConfigSuffix THEN cfg.state ELSE "missing"

\* An exception leaves companion_handler (file >> j on text that is no JSON,
\* or the conversion of an absent field): the companion process terminates,
\* and with it every handler it is running and every socket it holds.
Terminate ==
  /\ companionAlive' = FALSE
  /\ comp' = [x \in Events |->
                IF comp[x].pc \in {"none", "done"} THEN comp[x]
                ELSE [comp[x] EXCEPT !.pc = "dead"]]
  /\ compFd' = [x \in Events |-> IF compFd[x] = "open" THEN "closed" ELSE compFd[x]]

\* The blocking read the handler is in can return.
CompCanRead(e) ==
  \/ comp[e].pc \in {"read_path", "wait_dir"} /\ StringReady(h2c[e], hookFd[e] # "open")
  \/ comp[e].pc = "wait_decision" /\ (Len(h2c[e]) >= 1 \/ hookFd[e] # "open")

\* companion_handler from readString(i) to writeString(i, target_package_name).
CompReadConfig(e) ==
  /\ comp[e].pc = "read_path"
  /\ CompCanRead(e)
  /\ LET r == readString(h2c[e])
         j == get_json(r.str)
     IN  /\ h2c' = [h2c EXCEPT ![e] = r.rest]
         /\ CASE j = "missing" ->
                   /\ comp' = [comp EXCEPT ![e] = Return([@ EXCEPT !.path = r.str])]
                   /\ compFd' = [compFd EXCEPT ![e] = "closed"]
                   /\ log' = [log EXCEPT ![e] = Append(@, "c:return")]
                   /\ UNCHANGED << c2h, companionAlive >>
              [] j \in {"malformed", "nofield"} ->
                   /\ Terminate
                   /\ log' = [log EXCEPT ![e] = Append(@, "c:terminate")]
                   /\ UNCHANGED c2h
              [] j = "ok" ->
                   /\ comp' = [comp EXCEPT ![e] =
                                 [@ EXCEPT !.path = r.str, !.target = cfg.name,
                                           !.delay = cfg.delay, !.mode = cfg.mode,
                                           !.pc = "wait_decision"]]
                   /\ c2h' = [c2h EXCEPT ![e] = CompWrite(e, writeString(cfg.name))]
                   /\ log' = [log EXCEPT ![e] = Append(@, "c:target")]
                   /\ UNCHANGED << compFd, companionAlive >>
  /\ UNCHANGED << COMMON, fs, hookFd, hook, loader >>

\* read(i, &enable_gadget_injection, 1) and the test that follows. At end of
\* stream nothing is stored and the bool keeps its uninitialised value.
CompRecvDecision(e) ==
  /\ comp[e].pc = "wait_decision"
  /\ CompCanRead(e)
  /\ \E uninit \in BOOLEAN :
       LET enable == IF Len(h2c[e]) >= 1 THEN h2c[e][1] # 0 ELSE uninit
       IN  /\ h2c' = [h2c EXCEPT ![e] = IF Len(@) >= 1 THEN Tail(@) ELSE @]
           /\ IF enable
                THEN /\ comp' = [comp EXCEPT ![e].pc = "wait_dir"]
                     /\ UNCHANGED << compFd, log >>
                ELSE /\ comp' = [comp EXCEPT ![e] = Return(@)]
                     /\ compFd' = [compFd EXCEPT ![e] = "closed"]
                     /\ log' = [log EXCEPT ![e] = Append(@, "c:return")]
  /\ UNCHANGED << COMMON, fs, companionAlive, c2h, hookFd, hook, loader >>

\* The directory the companion stages into: normalize_dir of what the hook
\* sent, "/data/data/" + target_package_name when that is empty.
StagingDir(sent, target) ==
  IF normalize_dir(sent) = Empty THEN DataDataPrefix \o target ELSE normalize_dir(sent)

ConfigDestAppended(gadget) == gadget \o DotConfigSo

\* new_frida_config_name
ConfigDestName(gadget) == substr_to_last(gadget, Dot) \o DotConfigSo

\* The locals at the start of the copy of the side-car, and of the gadget.
StartConfigCopy(c, cfgName) ==
  [c EXCEPT !.which = "cfg", !.src = Path(substr_to_last(c.path, Slash), cfgName),
            !.dst = Path(c.appDir, ConfigDestName(c.gadget)), !.pos = 0, !.pc = "copy_open"]
StartGadgetCopy(c) ==
  [c EXCEPT !.which = "pay", !.src = Path(substr_to_last(c.path, Slash), c.gadget),
            !.dst = Path(c.appDir, c.gadget), !.pos = 0, !.pc = "copy_open"]

\* The entries fs::directory_iterator(module_dir) yields.
ModuleEntries(dir) == IF dir = ModuleDir THEN moduleFiles \cup {ConfigFileName} ELSE {}

\* companion_handler from readString of the app data dir, over the write of
\* the delay and the two find_matching_file calls, to the first copy_file.
CompRecvDir(e) ==
  /\ comp[e].pc = "wait_dir"
  /\ CompCanRead(e)
  /\ LET r == readString(h2c[e])
         dir == StagingDir(r.str, comp[e].target)
         entries == ModuleEntries(substr_to_last(comp[e].path, Slash))
     IN  /\ h2c' = [h2c EXCEPT ![e] = r.rest]
         /\ c2h' = [c2h EXCEPT ![e] = CompWrite(e, LE32(comp[e].delay))]
         /\ \E g \in find_matching_file(entries, arch) :
              IF g = Empty
                THEN /\ comp' = [comp EXCEPT ![e] = Return([@ EXCEPT !.appDir = dir])]
                     /\ compFd' = [compFd EXCEPT ![e] = "closed"]
                     /\ log' = [log EXCEPT ![e] = @ \o << "c:delay", "c:locate", "c:return" >>]
                ELSE /\ \E cn \in find_matching_file(entries, "config") :
                          comp' = [comp EXCEPT ![e] =
                             LET c == [@ EXCEPT !.appDir = dir, !.gadget = g]
                             IN  IF c.mode THEN StartConfigCopy(c, cn) ELSE StartGadgetCopy(c)]
                     /\ log' = [log EXCEPT ![e] = @ \o << "c:delay", "c:locate" >>]
                     /\ UNCHANGED compFd
  /\ UNCHANGED << COMMON, fs, companionAlive, hookFd, hook, loader >>

\* What fopen(source_path, "rb") finds: a file of the module directory, the
\* module directory itself (module_dir + "/" + ""), or nothing.
SrcKind(src) ==
  IF \E n \in ModuleEntries(ModuleDir) : src = Path(ModuleDir, n) THEN "file"
  ELSE IF src = Path(ModuleDir, Empty) THEN "dir"
  ELSE "missing"

AfterCopyAlwaysChown(ok) == "chown"

\* The position after copy_file returned for c.which.
AfterCopyPc(ok) == IF ok THEN "chown" ELSE "staged"

\* copy_file returned ok.
CopyReturned(c, ok) ==
  LET res == IF ok THEN "ok" ELSE "fail"
  IN  IF c.which = "cfg" THEN [c EXCEPT !.cfgCopy = res, !.pc = AfterCopyPc(ok)]
                         ELSE [c EXCEPT !.payCopy = res, !.pc = AfterCopyPc(ok)]

\* copy_file: the two fopen calls. fopen(dest_path, "wb") creates the file,
\* owned by the companion, or truncates it; it can fail (no such directory,
\* no space).
CompCopyOpen(e) ==
  /\ comp[e].pc = "copy_open"
  /\ LET c == comp[e]
     IN  \/ /\ comp' = [comp EXCEPT ![e] = CopyReturned(c, FALSE)]   \* an fopen fails
            /\ UNCHANGED fs
         \/ /\ SrcKind(c.src) # "missing"
            /\ comp' = [comp EXCEPT ![e] = [c EXCEPT !.pc = "copy_loop", !.wrote = @ \cup {c.dst}]]
            /\ fs' = [p \in DOMAIN fs \cup {c.dst} |->
                        IF p = c.dst
                          THEN [data |-> <<>>,
                                owner |-> IF p \in DOMAIN fs THEN fs[p].owner ELSE CompanionOwner]
                          ELSE fs[p]]
  /\ UNCHANGED << COMMON, companionAlive, h2c, c2h, hookFd, compFd, hook, loader, log >>

\* What copy_file returns when fread reports an error (ferror after the loop).
ReadErrorResult == TRUE

\* copy_file: one round of the fread/fwrite loop, or its end.
CompCopyLoop(e) ==
  /\ comp[e].pc = "copy_loop"
  /\ LET c == comp[e]
         more == SrcKind(c.src) = "file" /\ c.pos < Len(SrcData)
     IN  \/ /\ more                       \* a chunk is read and written
            /\ comp' = [comp EXCEPT ![e].pos = @ + 1]
            /\ fs' = IF c.dst \in DOMAIN fs
                       THEN [fs EXCEPT ![c.dst].data = Append(@, SrcData[c.pos + 1])]
                       ELSE fs
         \/ /\ more                       \* fwrite fails
            /\ comp' = [comp EXCEPT ![e] = CopyReturned(c, FALSE)]
            /\ UNCHANGED fs
         \/ /\ SrcKind(c.src) = "file" /\ ~more   \* end of file
            /\ comp' = [comp EXCEPT ![e] = CopyReturned(c, TRUE)]
            /\ UNCHANGED fs
         \/ /\ more \/ SrcKind(c.src) = "dir"     \* fread fails (EISDIR, EIO)
            /\ comp' = [comp EXCEPT ![e] = CopyReturned(c, ReadErrorResult)]
            /\ UNCHANGED fs
  /\ UNCHANGED << COMMON, companionAlive, h2c, c2h, hookFd, compFd, hook, loader, log >>

\* chown_like_dir(copy_dst, app_data_dir): stat or chown can fail.
CompChown(e) ==
  /\ comp[e].pc = "chown"
  /\ LET c == comp[e]
     IN  \E works \in BOOLEAN :
           LET done == works /\ c.dst \in DOMAIN fs
               res == IF done THEN "ok" ELSE "fail"
           IN  /\ fs' = IF done THEN [fs EXCEPT ![c.dst].owner = DirOwner] ELSE fs
               /\ comp' = [comp EXCEPT ![e] =
                    IF c.which = "cfg" THEN [c EXCEPT !.cfgChown = res, !.pc = "staged"]
                                       ELSE [c EXCEPT !.payChown = res, !.pc = "staged"]]
  /\ UNCHANGED << COMMON, companionAlive, h2c, c2h, hookFd, compFd, hook, loader, log >>

\* After the side-car block comes the copy of the gadget; after the gadget
\* block the name is sent.
CompNext(e) ==
  /\ comp[e].pc = "staged"
  /\ comp' = [comp EXCEPT ![e] =
                IF @.which = "cfg" THEN StartGadgetCopy(@) ELSE [@ EXCEPT !.pc = "send_name"]]
  /\ UNCHANGED << COMMON, fs, companionAlive, h2c, c2h, hookFd, compFd, hook, loader, log >>

SendNameBeforeChown(c) == c.pc = "send_name" \/ (c.pc = "chown" /\ c.which = "pay")

\* Where companion_handler sends the gadget name: after the gadget's block.
SendNameAt(c) == c.pc = "send_name"

EmptyName(c) == Empty

\* The name companion_handler sends.
NameSent(c) == c.gadget

\* writeString(i, frida_gadget_name), and the return.
CompSendName(e) ==
  /\ SendNameAt(comp[e])
  /\ c2h' = [c2h EXCEPT ![e] = CompWrite(e, writeString(NameSent(comp[e])))]
  /\ comp' = [comp EXCEPT ![e] = Return(@)]
  /\ compFd' = [compFd EXCEPT ![e] = "closed"]
  /\ log' = [log EXCEPT ![e] = @ \o << "c:name", "c:return" >>]
  /\ UNCHANGED << COMMON, fs, companionAlive, h2c, hookFd, hook, loader >>

\* ----------------------------------------------------------------- loader

\* usleep(time_to_sleep) returns; app_dir and gadget_path are computed.
LoaderWake(e) ==
  /\ loader[e].pc = "sleep"
  /\ LET l == loader[e]
         dir == normalize_dir(IF l.appDir # NULL THEN l.appDir ELSE Empty)
     IN  loader' = [loader EXCEPT ![e] =
           IF dir = Empty THEN [l EXCEPT !.pc = "done"]
           ELSE [l EXCEPT !.dir = dir, !.path = Path(dir, l.name), !.pc = "check"]]
  /\ UNCHANGED << COMMON, fs, companionAlive, h2c, c2h, hookFd, compFd, hook, comp, log >>

AfterCheckAlwaysLoad(found) == "dlopen"

\* The position after if (file): the loads, or the return of "Cannot find
\* gadget".
AfterCheckPc(found) == IF found THEN "dlopen" ELSE "done"

\* std::ifstream file(gadget_path); if (file): the file exists and the app
\* may read it (a file still owned by the companion may be unreadable).
LoaderCheck(e) ==
  /\ loader[e].pc = "check"
  /\ LET l == loader[e]
     IN  \E readable \in BOOLEAN :
           /\ l.path \in DOMAIN fs /\ fs[l.path].owner = DirOwner => readable
           /\ loader' = [loader EXCEPT ![e].pc =
                AfterCheckPc(l.path \in DOMAIN fs /\ readable)]
  /\ UNCHANGED << COMMON, fs, companionAlive, h2c, c2h, hookFd, compFd, hook, comp, log >>

AfterDlopenAlwaysXdl(loaded) == "xdl"

\* The position after dlopen returned.
AfterDlopenPc(loaded) == IF loaded THEN "cleanup" ELSE "xdl"

\* dlopen(gadget_path, RTLD_NOW): it can fail whatever the file holds, and
\* fails when the file is gone.
LoaderDlopen(e) ==
  /\ loader[e].pc = "dlopen"
  /\ \E works \in BOOLEAN :
       LET loaded == works /\ loader[e].path \in DOMAIN fs
       IN  loader' = [loader EXCEPT ![e] =
             [@ EXCEPT !.handle = loaded, !.tried = @ \cup {"dlopen"},
                       !.pc = AfterDlopenPc(loaded)]]
  /\ log' = [log EXCEPT ![e] = Append(@, "l:dlopen")]
  /\ UNCHANGED << COMMON, fs, companionAlive, h2c, c2h, hookFd, compFd, hook, comp >>

AfterXdlAlwaysCleanup(loaded) == "cleanup"

\* The position after xdl_open returned: cleanup runs if (handle).
AfterXdlPc(loaded) == IF loaded THEN "cleanup" ELSE "done"

\* xdl_open(gadget_path, XDL_TRY_FORCE_LOAD), the fallback.
LoaderXdl(e) ==
  /\ loader[e].pc = "xdl"
  /\ \E works \in BOOLEAN :
       LET loaded == works /\ loader[e].path \in DOMAIN fs
       IN  loader' = [loader EXCEPT ![e] =
             [@ EXCEPT !.handle = loaded, !.tried = @ \cup {"xdl"},
                       !.pc = AfterXdlPc(loaded)]]
  /\ log' = [log EXCEPT ![e] = Append(@, "l:xdl_open")]
  /\ UNCHANGED << COMMON, fs, companionAlive, h2c, c2h, hookFd, compFd, hook, comp >>

\* unlink(path) on fs.
Unlink(files, path) == [p \in DOMAIN files \ {path} |-> files[p]]

\* unlink(gadget_path.c_str())
LoaderUnlinkGadget(e) ==
  /\ loader[e].pc = "cleanup"
  /\ fs' = Unlink(fs, loader[e].path)
  /\ loader' = [loader EXCEPT ![e] =
       [@ EXCEPT !.removed = @ \cup ({loader[e].path} \cap DOMAIN fs), !.pc = "cleanup_cfg"]]
  /\ UNCHANGED << COMMON, companionAlive, h2c, c2h, hookFd, compFd, hook, comp, log >>

\* find_matching_file(app_dir, pattern) and the unlink of what it found.
LoaderUnlinkConfig(e) ==
  /\ loader[e].pc = "cleanup_cfg"
  /\ \E n \in find_matching_file(DirEntries(loader[e].dir), "cleanup") :
       LET path == Path(loader[e].dir, n)
       IN  IF n = Empty
             THEN /\ loader' = [loader EXCEPT ![e].pc = "done"]
                  /\ UNCHANGED fs
             ELSE /\ fs' = Unlink(fs, path)
                  /\ loader' = [loader EXCEPT ![e] =
                       [@ EXCEPT !.removed = @ \cup {path}, !.pc = "done"]]
  /\ UNCHANGED << COMMON, companionAlive, h2c, c2h, hookFd, compFd, hook, comp, log >>

\* Another actor removes the staged gadget while the loader sleeps.
EnvRemove(e) ==
  /\ loader[e].pc = "sleep"
  /\ loader[e].appDir # NULL
  /\ LET path == Path(normalize_dir(loader[e].appDir), loader[e].name)
     IN  /\ path \in DOMAIN fs
         /\ fs' = Unlink(fs, path)
  /\ log' = [log EXCEPT ![e] = Append(@, "env:remove")]
  /\ UNCHANGED << COMMON, companionAlive, h2c, c2h, hookFd, compFd, hook, comp, loader >>

\* ---------------------------------------------------------- specifications

Next ==
  \/ \E e \in Events : HookStart(e)
  \/ \E e \in Events : HookRecvTarget(e)
  \/ \E e \in Events : HookRecvDelay(e)
  \/ \E e \in Events : HookRecvName(e)
  \/ \E e \in Events : HookPost(e)
  \/ \E e \in Events : CompReadConfig(e)
  \/ \E e \in Events : CompRecvDecision(e)
  \/ \E e \in Events : CompRecvDir(e)
  \/ \E e \in Events : CompCopyOpen(e)
  \/ \E e \in Events : CompCopyLoop(e)
  \/ \E e \in Events : CompChown(e)
  \/ \E e \in Events : CompNext(e)
  \/ \E e \in Events : CompSendName(e)
  \/ \E e \in Events : LoaderWake(e)
  \/ \E e \in Events : LoaderCheck(e)
  \/ \E e \in Events : LoaderDlopen(e)
  \/ \E e \in Events : LoaderXdl(e)
  \/ \E e \in Events : LoaderUnlinkGadget(e)
  \/ \E e \in Events : LoaderUnlinkConfig(e)
  \/ \E e \in Events : EnvRemove(e)

Spec == Init /\ [][Next]_vars

\* Hook, companion and loader are threads the operating system keeps running:
\* a step that stays possible is eventually taken.
FairSpec == Spec /\ WF_vars(Next)

\* The handshake alone: preAppSpecialize and postAppSpecialize of the hook and
\* companion_handler, for one ABI and directories without a trailing slash
\* (neither changes which steps the two sides take).
InitHandshake ==
  /\ Init
  /\ arch = "arm64"
  /\ \A e \in Events : appDataDirArg[e] # DirASlash

\* The steps of the hook's thread and of the handler's thread of event e.
HookStep(e) ==
  HookStart(e) \/ HookRecvTarget(e) \/ HookRecvDelay(e) \/ HookRecvName(e) \/ HookPost(e)
CompanionStep(e) ==
  \/ CompReadConfig(e) \/ CompRecvDecision(e) \/ CompRecvDir(e) \/ CompCopyOpen(e)
  \/ CompCopyLoop(e) \/ CompChown(e) \/ CompNext(e) \/ CompSendName(e)

NextHandshake ==
  \/ \E e \in Events : HookStart(e)
  \/ \E e \in Events : HookRecvTarget(e)
  \/ \E e \in Events : HookRecvDelay(e)
  \/ \E e \in Events : HookRecvName(e)
  \/ \E e \in Events : HookPost(e)
  \/ \E e \in Events : CompReadConfig(e)
  \/ \E e \in Events : CompRecvDecision(e)
  \/ \E e \in Events : CompRecvDir(e)
  \/ \E e \in Events : CompCopyOpen(e)
  \/ \E e \in Events : CompCopyLoop(e)
  \/ \E e \in Events : CompChown(e)
  \/ \E e \in Events : CompNext(e)
  \/ \E e \in Events : CompSendName(e)

\* The hook runs on the thread of the launching process and the handler on a
\* thread of the companion; the operating system keeps both running, so a
\* step of either that stays possible is eventually taken.
FairHandshake ==
  /\ InitHandshake
  /\ [][NextHandshake]_vars
  /\ \A e \in Events : WF_vars(HookStep(e)) /\ WF_vars(CompanionStep(e))

\* Two processes launch with the target's name and the companion serves both
\* at once, each handler on its own thread; the host passes the first its
\* data directory, and the second the same directory or none. Config mode
\* is off.
Concurrent == {e \in Events : e <= 2}

InitConcurrent ==
  /\ InitCommon
  /\ arch = "arm64"
  /\ cfg \in {c \in Configs : c.state = "ok" /\ ~c.mode}
  /\ moduleFiles = AllGadgets
  /\ niceName = [e \in Events |-> IF e \in Concurrent THEN PkgA ELSE NULL]
  /\ \E d \in {NULL, DirA} :
       appDataDirArg = [e \in Events |-> IF e = 1 THEN DirA
                                         ELSE IF e \in Concurrent THEN d ELSE NULL]
  /\ hook = [e \in Events |->
               [HookInit EXCEPT !.pc = IF e \in Concurrent THEN "start" ELSE "idle"]]
  /\ rsIn = [decl |-> [hi |-> 0, lo |-> 0], bytes |-> <<>>]
  /\ rsOut = [str |-> NULL, rest |-> <<>>, body |-> 0]

SpecConcurrent == InitConcurrent /\ [][Next]_vars

\* -------------------------------------------- file names of the module root

\* File names a module directory can hold: a head, "-gadget" or not, a middle
\* and a tail, with and without further dots.
\* "", "a", "a.b"
NameHeads == {<<>>, <<97>>, <<97, 46, 98>>}
\* "-gadget", "-gadge"
NameMarks == {<<45, 103, 97, 100, 103, 101, 116>>, <<45, 103, 97, 100, 103, 101>>}
\* "", "-", ".", "-1.2-"
NameMiddles == {<<>>, <<45>>, <<46>>, <<45, 49, 46, 50, 45>>}
\* "arm.so", "arm64.so", "x86.so", "x86_64.so", "arm.so.1", "armso", ".config"
NameTails == {<<97, 114, 109, 46, 115, 111>>, <<97, 114, 109, 54, 52, 46, 115, 111>>, <<120, 56, 54, 46, 115, 111>>, <<120, 56, 54, 95, 54, 52, 46, 115, 111>>, <<97, 114, 109, 46, 115, 111, 46, 49>>, <<97, 114, 109, 115, 111>>, <<46, 99, 111, 110, 102, 105, 103>>}
CandidateNames ==
  {h \o k \o m \o t : h \in NameHeads, k \in NameMarks, m \in NameMiddles, t \in NameTails}

\* One launch of the target in config mode, the module directory holding one
\* candidate file and a side-car.
InitNaming ==
  /\ InitRun
  /\ arch \in Archs
  /\ cfg = [state |-> "ok", name |-> PkgA, delay |-> ConfigDelay, mode |-> TRUE]
  /\ \E n \in CandidateNames : moduleFiles = {n, FridaConfig}
  /\ niceName = [e \in Events |-> IF e = 1 THEN PkgA ELSE NULL]
  /\ appDataDirArg = [e \in Events |-> IF e = 1 THEN DirA ELSE NULL]
  /\ hook = [e \in Events |-> [HookInit EXCEPT !.pc = IF e = 1 THEN "start" ELSE "idle"]]
  /\ rsIn = [decl |-> [hi |-> 0, lo |-> 0], bytes |-> <<>>]
  /\ rsOut = [str |-> NULL, rest |-> <<>>, body |-> 0]

SpecNaming == InitNaming /\ [][Next]_vars

\* ------------------------------------------ readString as a pure function

\* n bytes 'a'
Fill(n) == [i \in 1..n |-> 97]

\* Byte sequences of length up to MaxBody over NUL, 'a', 'b'.
ShortBodies == UNION {[1..n -> {0, 97, 98}] : n \in 0..MaxBody}

\* Declared lengths, as the two halves of the uint32_t: 0, 1, 2, 3, the cap
\* and its neighbours, 2^16, 2^31 and 2^32 - 1.
DeclaredLens ==
  {[hi |-> 0, lo |-> n] : n \in {0, 1, 2, 3, MaxStringLen - 1, MaxStringLen, MaxStringLen + 1}}
  \cup {[hi |-> 1, lo |-> 0], [hi |-> 32768, lo |-> 0], [hi |-> 65535, lo |-> 65535]}

Prefix(d) == LE16(d.lo) \o LE16(d.hi)

\* Streams whose writer has closed, each with the length its prefix declares:
\* a cut prefix, or a prefix followed by a short body or by a body around
\* the cap.
FramingStreams ==
  {[decl |-> d, bytes |-> Take(Prefix(d), k)] : d \in DeclaredLens, k \in 0..(WordBytes - 1)}
  \cup {[decl |-> d, bytes |-> Prefix(d) \o b] : d \in DeclaredLens, b \in ShortBodies}
  \cup {[decl |-> d, bytes |-> Prefix(d) \o Fill(m)] :
          d \in DeclaredLens, m \in {MaxStringLen - 1, MaxStringLen, MaxStringLen + 1}}

NotRead == [str |-> NULL, rest |-> <<>>, body |-> 0]

InitFraming ==
  /\ InitCommon
  /\ arch = "arm64"
  /\ cfg = [state |-> "missing", name |-> Empty, delay |-> 0, mode |-> FALSE]
  /\ moduleFiles = {}
  /\ niceName = [e \in Events |-> NULL]
  /\ appDataDirArg = [e \in Events |-> NULL]
  /\ hook = [e \in Events |-> HookInit]
  /\ rsIn \in FramingStreams
  /\ rsOut = NotRead

\* readString(fd) on the stream rsIn.
ReadStringStep ==
  /\ rsOut = NotRead
  /\ rsOut' = readString(rsIn.bytes)
  /\ UNCHANGED << arch, cfg, moduleFiles, niceName, appDataDirArg, fs, companionAlive,
                  h2c, c2h, hookFd, compFd, hook, comp, loader, log, rsIn >>

NextFraming == ReadStringStep

SpecFraming == InitFraming /\ [][NextFraming]_vars


\* ------------------------------------------------------------------ claims

PreDone(e) == hook[e].pc \in {"pre_done", "post_done"}

\* The hook of event e has a name and it is the Config Record's target_name.
Matches(e) == niceName[e] # NULL /\ cfg.state = "ok" /\ niceName[e] = cfg.name

\* The hook of event e received target_name and its own name differs.
Differs(e) == niceName[e] # NULL /\ Logged(e, "h:recv_target") /\ niceName[e] # comp[e].target

\* Payload Location finds a gadget for this ABI in the module directory.
Located == \E n \in ModuleEntries(ModuleDir) : frida_gadget_pattern(arch, n)

\* C1: the companion writes the gadget name on the socket, and the hook
\* receives it, only after copy_file of the gadget has returned and, when it
\* returned true, after chown_like_dir of the staged gadget has returned.
C1_NameAfterStaging ==
  \A e \in Events :
    (Logged(e, "c:name") \/ Logged(e, "h:recv_name")) =>
       /\ comp[e].payCopy \in {"ok", "fail"}
       /\ comp[e].payCopy = "ok" => comp[e].payChown \in {"ok", "fail"}

C1_Witness ==
  \E e \in Events :
    /\ Logged(e, "h:recv_name")
    /\ comp[e].payCopy = "ok" /\ comp[e].payChown = "ok"
    /\ Path(comp[e].appDir, comp[e].gadget) \in DOMAIN fs

\* C2: when the hook's name differs from target_name, the companion does
\* nothing after sending target_name: no Payload Location, no file created or
\* written, no further message.
C2_MismatchNoWork ==
  \A e \in Events :
    Differs(e) =>
      /\ ~Logged(e, "c:locate")
      /\ comp[e].wrote = {}
      /\ ~Logged(e, "c:delay") /\ ~Logged(e, "c:name")

\* C3: once the hook has received target_name it sends exactly one decision,
\* true when its name equals target_name and false otherwise, before it sends
\* anything else or closes the socket.
C3_OneDecision ==
  \A e \in Events :
    (Logged(e, "h:recv_target") /\ (Logged(e, "h:dir") \/ Logged(e, "h:close"))) =>
      LET want == IF niceName[e] = comp[e].target THEN "h:decision_true"
                                                  ELSE "h:decision_false"
          sent == {i \in 1..Len(log[e]) :
                     log[e][i] \in {"h:decision_true", "h:decision_false"}}
      IN  /\ Cardinality(sent) = 1
          /\ \A i \in sent :
               /\ log[e][i] = want
               /\ \A k \in 1..Len(log[e]) : log[e][k] \in {"h:dir", "h:close"} => i < k

\* C4: when the hook's name differs from target_name, preAppSpecialize ends
\* with injection disabled and DLCLOSE_MODULE_LIBRARY set, and
\* postAppSpecialize starts no injection_thread.
C4_MismatchUnloads ==
  \A e \in Events :
    (Differs(e) /\ PreDone(e)) =>
      /\ ~hook[e].enable
      /\ hook[e].dlclose
      /\ loader[e].pc = "none" /\ ~Logged(e, "h:spawn")

C4_Witness == \E e \in Events : Differs(e) /\ hook[e].pc = "post_done"

\* C5: injection_thread unlinks files only after dlopen or xdl_open returned
\* a handle, and once it has finished with a handle neither the staged gadget
\* nor the staged side-car is left in the app data directory.
C5_CleanupIffActivated ==
  \A e \in Events :
    /\ loader[e].removed # {} => loader[e].handle
    /\ (loader[e].pc = "done" /\ loader[e].handle) =>
         /\ Path(comp[e].appDir, comp[e].gadget) \notin DOMAIN fs
         /\ Path(comp[e].appDir, ConfigDestName(comp[e].gadget)) \notin DOMAIN fs
    /\ (loader[e].pc = "done" /\ ~loader[e].handle) => loader[e].removed = {}

C5_Witness ==
  \E e \in Events :
    /\ loader[e].pc = "done" /\ loader[e].handle /\ "xdl" \in loader[e].tried
    /\ loader[e].removed = {Path(comp[e].appDir, comp[e].gadget),
                            Path(comp[e].appDir, ConfigDestName(comp[e].gadget))}

\* The handshake of event e has a step to take: a read that can return, or
\* the handler is between two reads.
HandshakeCanStep(e) ==
  \/ HookCanRead(e)
  \/ CompCanRead(e)
  \/ comp[e].pc \in {"copy_open", "copy_loop", "chown", "staged", "send_name"}

\* C6: with a well-formed Config Record and a matching hook, the companion
\* sends the gadget name if and only if Payload Location found a gadget, and
\* the hook ends with a non-empty gadget name exactly then; until the name is
\* sent the handshake always has a next step to take, so it is sent.
C6_NameIffLocated ==
  \A e \in Events :
    Matches(e) =>
      /\ comp[e].pc = "done" => (Logged(e, "c:name") <=> Located)
      /\ Logged(e, "c:name") => comp[e].gadget # Empty
      /\ PreDone(e) =>
           /\ Located => hook[e].gadget = comp[e].gadget /\ hook[e].gadget # Empty
           /\ ~Located => hook[e].gadget = NULL /\ ~hook[e].enable
      /\ (Located /\ hook[e].pc \notin {"idle", "start"} /\ ~Logged(e, "c:name")) =>
           HandshakeCanStep(e)

C6_Witness ==
  \E e \in Events :
    /\ Matches(e) /\ Located /\ PreDone(e)
    /\ Logged(e, "h:recv_name") /\ hook[e].enable /\ hook[e].gadget = comp[e].gadget

\* C7: when copy_file of the gadget fails, the hook is given the empty
\* string as gadget name: it disables injection and starts no
\* injection_thread.
C7_CopyFailureSendsEmpty ==
  \A e \in Events :
    (Matches(e) /\ comp[e].payCopy = "fail" /\ PreDone(e)) =>
      /\ ~hook[e].enable
      /\ hook[e].gadget = NULL
      /\ ~Logged(e, "h:spawn")

\* C8: when the Config Record Source is missing, malformed or lacks a field,
\* the handler ends without sending a message or writing a file, and the
\* companion process keeps running.
C8_ConfigErrorAbortsEventOnly ==
  \A e \in Events :
    (cfg.state # "ok" /\ comp[e].pc \notin {"none", "read_path"}) =>
      /\ comp[e].pc = "done"
      /\ companionAlive
      /\ ~Logged(e, "c:target") /\ ~Logged(e, "c:delay") /\ ~Logged(e, "c:name")
      /\ comp[e].wrote = {}

\* C9: when the companion closes the socket without sending target_name, the
\* hook, whatever its process name, sends no directory, ends
\* preAppSpecialize with injection disabled and DLCLOSE_MODULE_LIBRARY set,
\* and starts no injection_thread.
C9_ClosedChannelIsNotTarget ==
  \A e \in Events :
    (niceName[e] # NULL /\ Logged(e, "h:recv_eof") /\ ~Logged(e, "c:target")) =>
      /\ ~Logged(e, "h:dir")
      /\ PreDone(e) => ~hook[e].enable /\ hook[e].dlclose
      /\ ~Logged(e, "h:spawn")

\* C10: readString returns the empty string without taking a payload byte
\* when the declared length is 0 or above 16384, and returns the empty string
\* when the stream ends inside the length prefix or inside the declared bytes.
C10_ReadStringRejects ==
  rsOut # NotRead =>
    LET d == rsIn.decl
        avail == Len(rsIn.bytes)
    IN  /\ avail < WordBytes => rsOut.str = Empty
        /\ (avail >= WordBytes /\ (d.hi > 0 \/ d.lo = 0 \/ d.lo > MaxStringLen)) =>
             /\ rsOut.str = Empty
             /\ rsOut.body = 0
             /\ rsOut.rest = Drop(rsIn.bytes, WordBytes)
        /\ (avail >= WordBytes /\ d.hi = 0 /\ d.lo >= 1 /\ d.lo <= MaxStringLen
              /\ avail - WordBytes < d.lo) => rsOut.str = Empty

C10_Witness ==
  /\ rsOut # NotRead
  /\ rsIn.decl = [hi |-> 0, lo |-> MaxStringLen + 1]
  /\ Len(rsIn.bytes) = WordBytes + MaxStringLen + 1
  /\ Len(rsOut.rest) = MaxStringLen + 1

\* C11: injection_thread calls dlopen or xdl_open only after usleep of the
\* configured delay has returned and only when the staged gadget was there at
\* its check; when the gadget was removed while the thread slept, the thread
\* ends without calling dlopen or xdl_open and without unlinking a file.
C11_LoadAfterDelayIfPresent ==
  \A e \in Events :
    /\ loader[e].pc \in {"none", "sleep", "check"} =>
         loader[e].tried = {} /\ loader[e].removed = {} /\ ~Logged(e, "l:dlopen")
    /\ loader[e].pc = "dlopen" => loader[e].path \in DOMAIN fs
    /\ loader[e].tried # {} => loader[e].delay = cfg.delay
    /\ Logged(e, "env:remove") =>
         /\ loader[e].pc \in {"sleep", "check", "done"}
         /\ loader[e].tried = {} /\ loader[e].removed = {}
         /\ ~Logged(e, "l:dlopen") /\ ~Logged(e, "l:xdl_open")

C11_Witness ==
  \E e \in Events :
    /\ Logged(e, "env:remove") /\ loader[e].pc = "done"
    /\ loader[e].path \notin DOMAIN fs /\ loader[e].path # Empty

\* The module directory holds a side-car configuration file.
SidecarPresent == \E n \in ModuleEntries(ModuleDir) : frida_config_pattern(n)

\* C12: in config mode with no side-car file in the module directory, the
\* companion creates no side-car file in the app data directory, and still
\* copies the gadget and sends its name.
C12_NoSidecarNoFile ==
  \A e \in Events :
    (Matches(e) /\ cfg.mode /\ ~SidecarPresent /\ comp[e].gadget # Empty) =>
      /\ Path(comp[e].appDir, ConfigDestName(comp[e].gadget)) \notin DOMAIN fs
      /\ Path(comp[e].appDir, ConfigDestName(comp[e].gadget)) \notin comp[e].wrote
      /\ comp[e].pc = "done" => comp[e].payCopy # "none" /\ Logged(e, "c:name")

\* C13: in a handshake with a matching hook, once the gadget name is sent,
\* every file the companion copied successfully into the app data directory
\* is owned by the owner of that directory.
C13_StagedOwnedLikeDir ==
  \A e \in Events :
    (Matches(e) /\ Logged(e, "c:name")) =>
      LET pay == Path(comp[e].appDir, comp[e].gadget)
          sidecar == Path(comp[e].appDir, ConfigDestName(comp[e].gadget))
      IN  /\ (comp[e].payCopy = "ok" /\ pay \in DOMAIN fs) => fs[pay].owner = DirOwner
          /\ (comp[e].cfgCopy = "ok" /\ sidecar \in DOMAIN fs) => fs[sidecar].owner = DirOwner

\* C14: postAppSpecialize starts injection_thread if and only if
\* preAppSpecialize left injection enabled, starts it at most once and not
\* before postAppSpecialize, and returns while the thread has not yet slept
\* or loaded anything.
C14_SpawnIffEnabledOnce ==
  /\ [](\A e \in Events :
          /\ hook[e].pc # "post_done" =>
               loader[e].pc = "none" /\ Count(e, "h:spawn") = 0
          /\ hook[e].pc = "post_done" =>
               /\ Logged(e, "h:spawn") <=> hook[e].enable
               /\ loader[e].pc # "none" <=> hook[e].enable
               /\ Count(e, "h:spawn") <= 1)
  /\ [][\A e \in Events :
          (hook[e].pc = "pre_done" /\ hook'[e].pc = "post_done") =>
             /\ loader'[e].pc \in {"none", "sleep"}
             /\ loader'[e].tried = {}]_vars

C14_Witness ==
  \E e \in Events :
    /\ hook[e].pc = "post_done" /\ hook[e].enable
    /\ loader[e].pc = "sleep" /\ Count(e, "h:spawn") = 1

\* C15: injection_thread calls xdl_open only after dlopen returned no handle,
\* and never once dlopen returned one; when both return no handle the thread
\* ends having unlinked nothing, the staged gadget still in place.
C15_FallbackOnlyAfterFailure ==
  /\ [](\A e \in Events :
          /\ loader[e].pc = "xdl" => ~loader[e].handle /\ loader[e].tried = {"dlopen"}
          /\ "xdl" \in loader[e].tried => "dlopen" \in loader[e].tried
          /\ Count(e, "l:dlopen") <= 1 /\ Count(e, "l:xdl_open") <= 1
          /\ (loader[e].pc = "done" /\ loader[e].tried = {"dlopen", "xdl"} /\ ~loader[e].handle) =>
               /\ loader[e].removed = {}
               /\ loader[e].path \in DOMAIN fs)
  /\ [][\A e \in Events :
          /\ ("xdl" \in loader'[e].tried /\ "xdl" \notin loader[e].tried) =>
               ~loader[e].handle /\ "dlopen" \in loader[e].tried
          /\ (loader[e].handle /\ "xdl" \notin loader[e].tried) =>
               "xdl" \notin loader'[e].tried]_vars

C15_Witness ==
  \E e \in Events :
    /\ loader[e].pc = "done" /\ loader[e].tried = {"dlopen", "xdl"} /\ ~loader[e].handle
    /\ loader[e].path \in DOMAIN fs

\* The log entries that stand for a message written on the socket.
IsMessage(x) ==
  x \in {"h:config_path", "c:target", "h:decision_true", "h:decision_false",
         "h:dir", "c:delay", "c:name"}

\* The messages of a full handshake, in order.
Conversation ==
  << "h:config_path", "c:target", "h:decision_true", "h:dir", "c:delay", "c:name" >>

\* C16: with a well-formed Config Record, a matching hook and a gadget in
\* the module directory, the messages written on the socket are, in order and
\* once each: config path, target name, decision true, app data directory,
\* delay, gadget name; nothing else is written, every byte written is read,
\* and the hook connects at most once.
C16_MessageOrder ==
  \A e \in Events :
    /\ Count(e, "h:config_path") <= 1
    /\ (Matches(e) /\ Located) =>
         LET sent == SelectSeq(log[e], IsMessage)
         IN  /\ Len(sent) <= Len(Conversation)
             /\ sent = Take(Conversation, Len(sent))
             /\ (PreDone(e) /\ comp[e].pc = "done") =>
                  /\ sent = Conversation
                  /\ h2c[e] = <<>> /\ c2h[e] = <<>>

C16_Witness ==
  \E e \in Events :
    /\ Matches(e) /\ Located /\ PreDone(e) /\ comp[e].pc = "done"
    /\ SelectSeq(log[e], IsMessage) = Conversation

\* The handshake of event e is over: preAppSpecialize has returned (or was
\* never called), the handler has returned or died with its process (or was
\* never started), and neither end of the socket is open.
HandshakeOver(e) ==
  /\ hook[e].pc \in {"idle", "pre_done", "post_done"}
  /\ comp[e].pc \in {"none", "done", "dead"}
  /\ hookFd[e] # "open" /\ compFd[e] # "open"

\* C17: under fair scheduling every handshake terminates: preAppSpecialize
\* returns, the handler ends, and both ends of the socket are closed, whatever
\* the path taken.
C17_HandshakeTerminates == <>[](\A e \in Events : HandshakeOver(e))

C17_Witness ==
  \E e \in Events :
    /\ HandshakeOver(e) /\ hook[e].pc = "post_done"
    /\ hookFd[e] = "closed" /\ compFd[e] = "closed"
    /\ Logged(e, "c:delay") /\ Logged(e, "h:recv_eof")

\* The directory event e's hook names: the one the host passed, or the
\* fallback under "/data/data/".
EventDir(e) ==
  StagingDir(IF appDataDirArg[e] # NULL THEN appDataDirArg[e] ELSE Empty, cfg.name)

\* C18: with handlers of several events running at once, no injection_thread
\* calls dlopen or xdl_open on a staged gadget while a copy_file into that
\* same path has its destination open, and every handler creates files only
\* in the directory its own event names.
C18_NoLoadDuringCopy ==
  /\ [](\A e \in Events :
          \A p \in comp[e].wrote : HasAt(p, 1, EventDir(e) \o <<Slash>>))
  /\ [][\A e1 \in Events : \A e2 \in Events :
          loader'[e1].tried # loader[e1].tried =>
            ~(comp[e2].pc = "copy_loop" /\ comp[e2].dst = loader[e1].path)]_vars

\* C19: when copy_file of the side-car returns false, chown_like_dir is not
\* called for it, and the handler goes on to copy the gadget, to call
\* chown_like_dir for it when that copy succeeds, and to send the gadget name;
\* chown_like_dir is never called for a file whose copy_file returned false.
C19_SidecarFailureIsLocal ==
  \A e \in Events :
    /\ comp[e].cfgCopy = "fail" =>
         /\ comp[e].cfgChown = "none"
         /\ LET sidecar == Path(comp[e].appDir, ConfigDestName(comp[e].gadget))
            IN  sidecar \in DOMAIN fs => fs[sidecar].owner = CompanionOwner
         /\ comp[e].pc = "done" =>
              /\ comp[e].payCopy \in {"ok", "fail"}
              /\ comp[e].payCopy = "ok" => comp[e].payChown \in {"ok", "fail"}
              /\ Logged(e, "c:name")
    /\ comp[e].payCopy = "fail" => comp[e].payChown = "none"

C19_Witness ==
  \E e \in Events :
    /\ comp[e].cfgCopy = "fail" /\ comp[e].pc = "done"
    /\ comp[e].payCopy = "ok" /\ comp[e].payChown = "ok" /\ Logged(e, "c:name")
    /\ Path(comp[e].appDir, ConfigDestName(comp[e].gadget)) \in DOMAIN fs

\* ".config."
DotConfigDot == <<46, 99, 111, 110, 102, 105, 103, 46>>

\* A file name with its final extension replaced by ".config." and that
\* extension.
WithConfigExtension(name) ==
  LET k == rfind(name, Dot)
  IN  Take(name, k - 1) \o DotConfigDot \o Drop(name, k)

\* C20: for every file name find_matching_file can return as the gadget, in
\* config mode the side-car is staged under that name with its final
\* extension replaced by ".config." followed by the original extension, and
\* the gadget is staged under its own name.
C20_SidecarName ==
  \A e \in Events :
    comp[e].gadget # Empty =>
      LET g == comp[e].gadget
      IN  /\ g \in moduleFiles /\ frida_gadget_pattern(arch, g)
          /\ rfind(g, Dot) > 0
          /\ comp[e].which = "cfg" =>
               comp[e].dst = Path(comp[e].appDir, WithConfigExtension(g))
          /\ comp[e].which = "pay" => comp[e].dst = Path(comp[e].appDir, g)
          /\ comp[e].wrote \subseteq
               {Path(comp[e].appDir, WithConfigExtension(g)), Path(comp[e].appDir, g)}

C20_Witness ==
  \E e \in Events :
    LET g == comp[e].gadget
    IN  /\ g # Empty /\ g \notin AllGadgets
        /\ rfind(Take(g, rfind(g, Dot) - 1), Dot) > 0
        /\ Path(comp[e].appDir, WithConfigExtension(g)) \in DOMAIN fs
        /\ Path(comp[e].appDir, g) \in DOMAIN fs

\* The fields of the Injection Decision the hook keeps.
Decision(h) ==
  [enable |-> h.enable, target |-> h.target, appDir |-> h.appDir,
   delay |-> h.delay, gadget |-> h.gadget]

\* C21: when preAppSpecialize has returned with injection enabled, the
\* process name is the Config Record's target name, the stored gadget name is
\* non-empty and is the file the companion located and whose copy_file
\* succeeded, and the stored delay is the Config Record's delay; after that
\* return no field of the decision changes.
C21_DecisionFields ==
  /\ [](\A e \in Events :
          (PreDone(e) /\ hook[e].enable) =>
            /\ cfg.state = "ok" /\ niceName[e] = cfg.name /\ hook[e].target = cfg.name
            /\ hook[e].gadget # NULL /\ hook[e].gadget # Empty
            /\ hook[e].gadget = comp[e].gadget
            /\ frida_gadget_pattern(arch, hook[e].gadget)
            /\ comp[e].payCopy = "ok"
            /\ hook[e].delay = cfg.delay)
  /\ [][\A e \in Events : PreDone(e) => Decision(hook'[e]) = Decision(hook[e])]_vars

\* C22: once injection_thread has computed its directory, that directory is
\* the one the companion staged the gadget into for the same event, whatever
\* directory the hook sent: none, a path, a path with trailing slashes.
C22_LoaderDirIsStagingDir ==
  \A e \in Events :
    loader[e].pc \notin {"none", "sleep"} => loader[e].dir = comp[e].appDir

\* C23: every name the companion stages a side-car under matches the pattern
\* injection_thread cleans up with, and once injection_thread has finished
\* with a handle in a directory that held only this event's staged files, no
\* file of that directory carries a side-car name.
C23_SidecarCleaned ==
  \A e \in Events :
    /\ comp[e].cfgCopy # "none" =>
         cleanup_pattern(ConfigDestName(comp[e].gadget))
    /\ (loader[e].pc = "done" /\ loader[e].handle) =>
         \A n \in DirEntries(loader[e].dir) : ~cleanup_pattern(n)

C23_Witness ==
  \E e \in Events :
    /\ comp[e].cfgCopy = "ok" /\ comp[e].gadget \notin AllGadgets
    /\ loader[e].pc = "done" /\ loader[e].handle
    /\ Path(loader[e].dir, ConfigDestName(comp[e].gadget)) \in loader[e].removed

\* ------------------------------------- writeString followed by readString

\* Strings handed to writeString: short ones, with and without a NUL byte,
\* and ones whose size() + 1 is the cap of readString and its neighbours.
WrittenStrings ==
  ShortBodies \cup {Fill(m) : m \in {MaxStringLen - 2, MaxStringLen - 1, MaxStringLen}}

\* The message that follows on the same socket.
FollowingStrings == {Empty, PkgA, DirA}

\* What readString has returned so far, in order.
NoneRead == <<>>

\* One end is about to writeString two strings in a row on a socket, the
\* other end is about to readString twice.
InitRoundTrip ==
  /\ InitCommon
  /\ arch = "arm64"
  /\ cfg = [state |-> "missing", name |-> Empty, delay |-> 0, mode |-> FALSE]
  /\ moduleFiles = {}
  /\ niceName = [e \in Events |-> NULL]
  /\ appDataDirArg = [e \in Events |-> NULL]
  /\ hook = [e \in Events |-> HookInit]
  /\ \E s \in WrittenStrings, t \in FollowingStrings :
       rsIn = [msgs |-> <<s, t>>, sent |-> 0, bytes |-> <<>>]
  /\ rsOut = NoneRead

\* writeString(fd, str) of the next string; the writer closes the socket
\* after the last one.
WriteStringStep ==
  /\ rsIn.sent < Len(rsIn.msgs)
  /\ rsIn' = [rsIn EXCEPT !.sent = @ + 1,
                          !.bytes = @ \o writeString(rsIn.msgs[rsIn.sent + 1])]
  /\ UNCHANGED << arch, cfg, moduleFiles, niceName, appDataDirArg, fs, companionAlive,
                  h2c, c2h, hookFd, compFd, hook, comp, loader, log, rsOut >>

\* readString(fd) of the other end, once it can return.
ReadStringNext ==
  /\ Len(rsOut) < Len(rsIn.msgs)
  /\ StringReady(rsIn.bytes, rsIn.sent = Len(rsIn.msgs))
  /\ LET r == readString(rsIn.bytes)
     IN  /\ rsOut' = Append(rsOut, r.str)
         /\ rsIn' = [rsIn EXCEPT !.bytes = r.rest]
  /\ UNCHANGED << arch, cfg, moduleFiles, niceName, appDataDirArg, fs, companionAlive,
                  h2c, c2h, hookFd, compFd, hook, comp, loader, log >>

NextRoundTrip == WriteStringStep \/ ReadStringNext

SpecRoundTrip == InitRoundTrip /\ [][NextRoundTrip]_vars

\* The bytes writeString produced for the strings from + 1 .. to of msgs.
RECURSIVE Frames(_, _, _)
Frames(msgs, from, to) ==
  IF from >= to THEN <<>>
  ELSE writeString(msgs[from + 1]) \o Frames(msgs, from + 1, to)

\* C24: every string given to writeString, the empty string and strings of
\* 16384 bytes or more included, is what readString returns on the other
\* end, and readString takes exactly the bytes writeString produced for it,
\* so the socket is left at the first byte of the next message.
C24_RoundTrip ==
  /\ \A k \in 1..Len(rsOut) : rsOut[k] = rsIn.msgs[k]
  /\ rsIn.bytes = Frames(rsIn.msgs, Len(rsOut), rsIn.sent)

\* The file copy_file has just reported as copied holds every byte of its
\* source.
CopyComplete(c) == c.dst \in DOMAIN fs /\ fs[c.dst].data = SrcData

\* C25: for the target's own launch, copy_file returns true only when the
\* destination holds every byte of the source, a failed fopen, fread or
\* fwrite making it return false: the file chown_like_dir is applied to is
\* complete, and so is the gadget whose copy returned true when its name is
\* sent.
C25_CopySuccessIsComplete ==
  \A e \in Events :
    Matches(e) =>
      /\ comp[e].pc = "chown" => CopyComplete(comp[e])
      /\ (comp[e].pc = "send_name" /\ comp[e].payCopy = "ok") => CopyComplete(comp[e])

====
